---- MODULE Spec2Model ----
(***************************************************************************)
(* A model of rlox: scanner (src/src/scanner.rs, src/src/token.rs), parser *)
(* (src/src/parse.rs, src/src/expression.rs), evaluator                    *)
(* (src/src/interpret.rs) and the prompt loop that chains them             *)
(* (src/src/main.rs).                                                      *)
(*                                                                         *)
(* A source text is a sequence of characters; a character is a one-element *)
(* string, except the two-byte alphanumeric character U+00E9, written      *)
(* "U+00E9".  An f64 is modelled exactly (no rounding) as a fraction, an   *)
(* infinity or a NaN.                                                      *)
(***************************************************************************)
EXTENDS Integers, Sequences, FiniteSets, TLC

VARIABLES
    text,      \* the source text handed to scan_tokens (never changes)
    source,    \* scan_tokens: what is left of the source
    line,      \* scan_tokens: the line counter
    tokens,    \* scan_tokens: the tokens pushed so far; then Parser.tokens
    last,      \* scan_tokens: what the last call of scan_token returned
    parsed,    \* what Parser::parse returned
    value,     \* what Interpreter::evaluate returned
    pc         \* where the run is

vars == <<text, source, line, tokens, last, parsed, value, pc>>

(***************************************************************************)
(* Bounds of the model.                                                    *)
(***************************************************************************)
MaxSourceLen == 4

MaxTokens == 4

MaxNumber == 2

(***************************************************************************)
(* Characters.                                                             *)
(***************************************************************************)
AsciiDigits == {"0", "1", "2", "3", "4", "5", "6", "7", "8", "9"}

AsciiLetters ==
    {"a", "b", "c", "d", "e", "f", "g", "h", "i", "j", "k", "l", "m",
     "n", "o", "p", "q", "r", "s", "t", "u", "v", "w", "x", "y", "z",
     "A", "B", "C", "D", "E", "F", "G", "H", "I", "J", "K", "L", "M",
     "N", "O", "P", "Q", "R", "S", "T", "U", "V", "W", "X", "Y", "Z"}

\* Alphanumeric characters outside ASCII; U+00E9 takes two bytes in UTF-8.
NonAsciiAlphanumerics == {"U+00E9"}

\* char::is_whitespace, on the characters of the model
is_whitespace(c) == c \in {" ", "\n", "\t", "\r"}

\* char::is_ascii_digit
is_ascii_digit(c) == c \in AsciiDigits

\* char::is_alphanumeric
is_alphanumeric(c) ==
    c \in AsciiDigits \cup AsciiLetters \cup NonAsciiAlphanumerics

\* char::len_utf8
len_utf8(c) == IF c \in NonAsciiAlphanumerics THEN 2 ELSE 1

\* the closure of scanner.rs:179: a character that ends a word
ends_word(c) == ~(is_alphanumeric(c) \/ c = "_")

RECURSIVE byte_len(_)
\* str::len: the length of a text in bytes
byte_len(s) == IF s = <<>> THEN 0 ELSE len_utf8(Head(s)) + byte_len(Tail(s))

Drop(s, n) == SubSeq(s, n + 1, Len(s))

\* Iterator::position: the 1-based index of the first element satisfying P,
\* 0 when there is none
Position(s, P(_)) ==
    IF \E i \in 1..Len(s) : P(s[i])
    THEN CHOOSE i \in 1..Len(s) : P(s[i]) /\ \A j \in 1..(i - 1) : ~P(s[j])
    ELSE 0

\* the number of leading elements satisfying P (take_while(..).count())
CountWhile(s, P(_)) ==
    CHOOSE k \in 0..Len(s) :
        /\ \A i \in 1..k : P(s[i])
        /\ (k = Len(s) \/ ~P(s[k + 1]))

\* the number of elements equal to c
Count(s, c) == Cardinality({i \in 1..Len(s) : s[i] = c})

\* let x = v; Then(x): v is evaluated once
Bind(v, Then(_)) == CHOOSE y \in {Then(x) : x \in {v}} : TRUE

\* the ? of Rust on a Result r: an Err is returned as it is, an Ok goes on
\* into Then
Try(r, Then(_)) == Bind(r, LAMBDA x : IF x.ok THEN Then(x) ELSE x)

\* str::trim_start
trim_start(s) == Drop(s, CountWhile(s, is_whitespace))

(***************************************************************************)
(* f64, exactly: a non-zero fraction num/den in lowest terms with den > 0  *)
(* (cls "fin"), a signed zero, a signed infinity (num is the sign, 1 or    *)
(* -1) or a NaN.  Rounding, overflow and underflow are not modelled.       *)
(***************************************************************************)
RECURSIVE Gcd(_, _)
Gcd(a, b) == IF b = 0 THEN a ELSE Gcd(b, a % b)

Abs(a) == IF a < 0 THEN -a ELSE a

Zero(sign) == [cls |-> "zero", num |-> sign, den |-> 1]

Inf(sign) == [cls |-> "inf", num |-> sign, den |-> 1]

NaN == [cls |-> "nan", num |-> 0, den |-> 1]

\* the f64 n/d, d # 0; an exact zero result is +0
Fin(n, d) ==
    LET g == Gcd(Abs(n), Abs(d))
        s == IF d < 0 THEN -1 ELSE 1
    IN  IF n = 0 THEN Zero(1)
        ELSE [cls |-> "fin", num |-> (s * n) \div g, den |-> (s * d) \div g]

\* the sign bit of a number that is no NaN, as 1 or -1
SignOf(a) == IF a.num < 0 THEN -1 ELSE 1

\* the numerator of a finite number over its denominator a.den
NumOf(a) == IF a.cls = "zero" THEN 0 ELSE a.num

\* f64: ==
f64_eq(a, b) ==
    IF a.cls = "nan" \/ b.cls = "nan" THEN FALSE
    ELSE IF a.cls = "zero" /\ b.cls = "zero" THEN TRUE
    ELSE a = b

\* f64: <
f64_lt(a, b) ==
    IF a.cls = "nan" \/ b.cls = "nan" THEN FALSE
    ELSE IF a.cls = "inf" THEN a.num = -1 /\ b # a
    ELSE IF b.cls = "inf" THEN b.num = 1
    ELSE NumOf(a) * b.den < NumOf(b) * a.den

\* f64: unary -
f64_neg(a) ==
    IF a.cls = "nan" THEN NaN ELSE [a EXCEPT !.num = -a.num]

\* f64: +
f64_add(a, b) ==
    IF a.cls = "nan" \/ b.cls = "nan" THEN NaN
    ELSE IF a.cls = "inf" /\ b.cls = "inf" THEN (IF a.num = b.num THEN a ELSE NaN)
    ELSE IF a.cls = "inf" THEN a
    ELSE IF b.cls = "inf" THEN b
    ELSE IF a.cls = "zero" /\ b.cls = "zero"
    THEN Zero(IF a.num = -1 /\ b.num = -1 THEN -1 ELSE 1)
    ELSE Fin(NumOf(a) * b.den + NumOf(b) * a.den, a.den * b.den)

\* f64: -
f64_sub(a, b) == f64_add(a, f64_neg(b))

\* f64: *
f64_mul(a, b) ==
    IF a.cls = "nan" \/ b.cls = "nan" THEN NaN
    ELSE IF {a.cls, b.cls} = {"inf", "zero"} THEN NaN
    ELSE IF a.cls = "inf" \/ b.cls = "inf" THEN Inf(SignOf(a) * SignOf(b))
    ELSE IF a.cls = "zero" \/ b.cls = "zero" THEN Zero(SignOf(a) * SignOf(b))
    ELSE Fin(a.num * b.num, a.den * b.den)

\* f64: /
f64_div(a, b) ==
    IF a.cls = "nan" \/ b.cls = "nan" THEN NaN
    ELSE IF a.cls = "inf" /\ b.cls = "inf" THEN NaN
    ELSE IF a.cls = "zero" /\ b.cls = "zero" THEN NaN
    ELSE IF a.cls = "inf" \/ b.cls = "zero" THEN Inf(SignOf(a) * SignOf(b))
    ELSE IF a.cls = "zero" \/ b.cls = "inf" THEN Zero(SignOf(a) * SignOf(b))
    ELSE Fin(a.num * b.den, a.den * b.num)

DigitValue(c) == CHOOSE v \in 0..9 : <<"0", "1", "2", "3", "4", "5", "6", "7", "8", "9">>[v + 1] = c

RECURSIVE DigitsValue(_)
\* the natural number a run of ASCII digits denotes
DigitsValue(ds) ==
    IF ds = <<>> THEN 0
    ELSE 10 * DigitsValue(SubSeq(ds, 1, Len(ds) - 1)) + DigitValue(ds[Len(ds)])

RECURSIVE Pow10(_)
Pow10(n) == IF n = 0 THEN 1 ELSE 10 * Pow10(n - 1)

\* ASCII lower case of a letter (f64::from_str compares "inf", "infinity" and
\* "nan" ignoring case)
to_ascii_lowercase(c) ==
    LET up == <<"A", "B", "C", "D", "E", "F", "G", "H", "I", "J", "K", "L", "M",
                "N", "O", "P", "Q", "R", "S", "T", "U", "V", "W", "X", "Y", "Z">>
        lo == <<"a", "b", "c", "d", "e", "f", "g", "h", "i", "j", "k", "l", "m",
                "n", "o", "p", "q", "r", "s", "t", "u", "v", "w", "x", "y", "z">>
    IN  IF \E i \in 1..26 : up[i] = c
        THEN lo[CHOOSE i \in 1..26 : up[i] = c]
        ELSE c

\* str::parse::<f64> on the texts the scanner hands it: digit+ ( "." digit+ )?,
\* and the words "inf", "infinity", "nan" in any case; anything else fails.
parse_f64(s) ==
    LET lower == [i \in 1..Len(s) |-> to_ascii_lowercase(s[i])]
        int_len == CountWhile(s, is_ascii_digit)
        rest == Drop(s, int_len)
        frac == IF rest = <<>> THEN <<>> ELSE Tail(rest)
    IN  IF lower \in {<<"i", "n", "f">>, <<"i", "n", "f", "i", "n", "i", "t", "y">>}
        THEN [ok |-> TRUE, val |-> Inf(1)]
        ELSE IF lower = <<"n", "a", "n">>
        THEN [ok |-> TRUE, val |-> NaN]
        ELSE IF int_len > 0 /\ rest = <<>>
        THEN [ok |-> TRUE, val |-> Fin(DigitsValue(s), 1)]
        ELSE IF /\ int_len > 0
                /\ Head(rest) = "."
                /\ frac # <<>>
                /\ CountWhile(frac, is_ascii_digit) = Len(frac)
        THEN [ok |-> TRUE,
              val |-> Fin(DigitsValue(SubSeq(s, 1, int_len) \o frac), Pow10(Len(frac)))]
        ELSE [ok |-> FALSE, val |-> NaN]

(***************************************************************************)
(* token.rs: TokenType.  A token type is a record [ty], with the payload   *)
(* num (Number) or str (String, Identifier).                               *)
(***************************************************************************)
TokenType(ty) == [ty |-> ty]

Number(n) == [ty |-> "Number", num |-> n]

String(s) == [ty |-> "String", str |-> s]

Identifier(s) == [ty |-> "Identifier", str |-> s]

\* Token { ty, line }
Token(ty, l) == [ty |-> ty, line |-> l]

\* the reserved words: the unit variants And .. While under
\* #[display(style = "lowercase")]
Keywords ==
    {<<<<"a", "n", "d">>, "And">>,
     <<<<"c", "l", "a", "s", "s">>, "Class">>,
     <<<<"e", "l", "s", "e">>, "Else">>,
     <<<<"f", "a", "l", "s", "e">>, "False">>,
     <<<<"f", "u", "n">>, "Fun">>,
     <<<<"f", "o", "r">>, "For">>,
     <<<<"i", "f">>, "If">>,
     <<<<"n", "i", "l">>, "Nil">>,
     <<<<"o", "r">>, "Or">>,
     <<<<"p", "r", "i", "n", "t">>, "Print">>,
     <<<<"r", "e", "t", "u", "r", "n">>, "Return">>,
     <<<<"s", "u", "p", "e", "r">>, "Super">>,
     <<<<"t", "h", "i", "s">>, "This">>,
     <<<<"t", "r", "u", "e">>, "True">>,
     <<<<"v", "a", "r">>, "Var">>,
     <<<<"w", "h", "i", "l", "e">>, "While">>}

\* the regex of Identifier, [0-9a-zA-Z_]+, matched against the whole text
matches_identifier(s) ==
    /\ s # <<>>
    /\ \A i \in 1..Len(s) : s[i] \in AsciiDigits \cup AsciiLetters \cup {"_"}

\* <TokenType as FromStr>::from_str on a word of the scanner (a text without
\* punctuation or quotes): the unit variants by their exact text, then the
\* variants with a payload in the order of their declaration, Number (its f64
\* parsed from the whole text) before Identifier; Eof never matches.
parse_TokenType(word) ==
    IF \E k \in Keywords : k[1] = word
    THEN [ok |-> TRUE, token |-> TokenType((CHOOSE k \in Keywords : k[1] = word)[2])]
    ELSE IF parse_f64(word).ok
    THEN [ok |-> TRUE, token |-> Number(parse_f64(word).val)]
    ELSE IF matches_identifier(word)
    THEN [ok |-> TRUE, token |-> Identifier(word)]
    ELSE [ok |-> FALSE]

(***************************************************************************)
(* scanner.rs: scan_token.  The result is [lines, remainder, result], with *)
(* result one of Ok(Some(token)), Ok(None), Err; a panic of the call is    *)
(* the result Panic (nothing is returned then).                            *)
(***************************************************************************)
OkSome(t) == [is |-> "Some", token |-> t]

OkNone == [is |-> "None"]

Err(e) == [is |-> "Err", err |-> e]

Panic == [is |-> "Panic"]

Returned(lines, remainder, result) ==
    [lines |-> lines, remainder |-> remainder, result |-> result]

\* scanner.rs:50-59: the tokens of one character
SingleCharTokens ==
    {<<"(", "LeftParen">>, <<")", "RightParen">>, <<"{", "LeftBrace">>,
     <<"}", "RightBrace">>, <<".", "Dot">>, <<",", "Comma">>, <<"-", "Minus">>,
     <<"+", "Plus">>, <<";", "Semicolon">>, <<"*", "Star">>}

\* scanner.rs:70-109: c, then "=" for the first token type, else the second
TwoCharTokens ==
    {<<"!", "BangEqual", "Bang">>, <<"=", "EqualEqual", "Equal">>,
     <<">", "GreaterEqual", "Greater">>, <<"<", "LessEqual", "Less">>}

\* str::split_at(mid), mid counted in bytes: the number of characters before
\* byte mid, or -1 when mid is not on a character boundary (split_at panics)
chars_before_byte(s, mid) ==
    IF \E k \in 0..Len(s) : byte_len(SubSeq(s, 1, k)) = mid
    THEN CHOOSE k \in 0..Len(s) : byte_len(SubSeq(s, 1, k)) = mid
    ELSE -1

\* scanner.rs:176-186: try as a keyword or an identifier
scan_word(input, lines) ==
    LET found == Position(input, ends_word)
        \* position counts characters, unwrap_or(input.len()) bytes
        pos_word_end == IF found = 0 THEN byte_len(input) ELSE found - 1
        k == chars_before_byte(input, pos_word_end)
        word == SubSeq(input, 1, k)
        remainder == Drop(input, k)
        token == parse_TokenType(word)
    IN  IF k = -1 THEN Returned(lines, input, Panic)
        ELSE IF token.ok THEN Returned(lines, remainder, OkSome(token.token))
        ELSE Returned(lines, remainder, Err("parse error"))

\* scanner.rs:60-69: "/" or "//"; chars is the text after the first "/"
scan_slash(chars) ==
    LET nl == Position(chars, LAMBDA ch : ch = "\n")
    IN  IF chars # <<>> /\ Head(chars) = "/"
        THEN Returned(1, IF nl = 0 THEN <<>> ELSE Drop(chars, nl), OkNone)
        ELSE Returned(0, chars, OkSome(TokenType("Slash")))

\* scanner.rs:110-130: a string; chars is the text after the opening quote
scan_string(chars) ==
    LET quote == Position(chars, LAMBDA ch : ch = "\"")
        str_content == SubSeq(chars, 1, quote - 1)
    IN  IF quote = 0
        THEN Returned(Count(chars, "\n"), <<>>, Err("Unterminated string"))
        ELSE Returned(Count(str_content, "\n"), Drop(chars, quote),
                      OkSome(String(str_content)))

\* scan_number that takes the dot also when no digit follows it
scan_number_TrailingDot(input, chars) ==
    LET digits == 1 + CountWhile(chars, is_ascii_digit)
        peek == Drop(input, digits)
        fraction == IF peek # <<>> /\ Head(peek) = "."
                    THEN CountWhile(Tail(peek), is_ascii_digit)
                    ELSE 0
        fractional_chars == IF peek # <<>> /\ Head(peek) = "." THEN fraction + 1 ELSE 0
        remainder == Drop(input, digits + fractional_chars)
        num == parse_f64(SubSeq(input, 1,
                                digits + (IF fraction > 0 THEN fraction + 1 ELSE 0)))
    IN  Returned(0, remainder, OkSome(Number(num.val)))

\* scanner.rs:131-160: a number; chars is the text after the first digit
scan_number(input, chars) ==
    LET digits == 1 + CountWhile(chars, is_ascii_digit)
        peek == Drop(input, digits)
        fraction == IF peek # <<>> /\ Head(peek) = "."
                    THEN CountWhile(Tail(peek), is_ascii_digit)
                    ELSE 0
        fractional_chars == IF fraction > 0 THEN fraction + 1 ELSE 0
        number_str == SubSeq(input, 1, digits + fractional_chars)
        remainder == Drop(input, digits + fractional_chars)
        num == parse_f64(number_str)
    IN  IF num.ok
        THEN Returned(0, remainder, OkSome(Number(num.val)))
        ELSE Returned(0, remainder, Err("failed to parse number"))

scan_token(input0) ==
    LET input == trim_start(input0)
        c == Head(input)
        chars == Tail(input)
    IN  IF input = <<>> THEN Returned(0, input, OkNone)
        ELSE IF c = "\n" THEN scan_word(input, 1)
        ELSE IF \E t \in SingleCharTokens : t[1] = c
        THEN Returned(0, chars,
                      OkSome(TokenType((CHOOSE t \in SingleCharTokens : t[1] = c)[2])))
        ELSE IF c = "/" THEN scan_slash(chars)
        ELSE IF \E t \in TwoCharTokens : t[1] = c
        THEN LET t == CHOOSE t \in TwoCharTokens : t[1] = c
             IN  IF chars # <<>> /\ Head(chars) = "="
                 THEN Returned(0, Tail(chars), OkSome(TokenType(t[2])))
                 ELSE Returned(0, chars, OkSome(TokenType(t[3])))
        ELSE IF c = "\"" THEN scan_string(chars)
        ELSE IF is_ascii_digit(c) THEN scan_number(input, chars)
        ELSE IF ends_word(c) THEN Returned(0, chars, Err("Invalid character"))
        ELSE scan_word(input, 0)

(***************************************************************************)
(* expression.rs: Literal, Unary, Operator, Expr.                          *)
(***************************************************************************)
LNil == [lit |-> "Nil"]

LBool(b) == [lit |-> "Bool", b |-> b]

LNumber(n) == [lit |-> "Number", n |-> n]

LString(t) == [lit |-> "String", s |-> t]

Literal(l) == [kind |-> "Literal", literal |-> l]

Grouping(e) == [kind |-> "Grouping", expr |-> e]

UnaryExpr(op, e) == [kind |-> "Unary", unary |-> op, expr |-> e]

BinaryExpr(l, op, r) == [kind |-> "Binary", left |-> l, operator |-> op, right |-> r]

(***************************************************************************)
(* parse.rs: Parser.  The parser's state st is [position, peeks]: the      *)
(* field position, and the positions peek has read so far (0-based, as in  *)
(* the code).  A rule returns [ok, expr, st], or [ok, err, st] for an Err. *)
(***************************************************************************)
\* Parser::new
new_Parser == [position |-> 0, peeks |-> <<>>]

None == [ty |-> "None"]

\* Parser::peek: self.tokens.get(self.position).map(|t| &t.ty)
peek(toks, st) ==
    IF st.position < Len(toks) THEN toks[st.position + 1].ty ELSE None

\* the parser's state after a call of peek
Peeked(st) == [st EXCEPT !.peeks = Append(@, st.position)]

\* self.position += 1
Advance(st) == [st EXCEPT !.position = @ + 1]

POk(e, st) == [ok |-> TRUE, expr |-> e, st |-> st]

PErr(e, st) == [ok |-> FALSE, err |-> e, st |-> st]

\* OperatorAt with the operators of term and factor exchanged
OperatorAt_Swapped(level, ty) ==
    CASE level = "equality" /\ ty = "BangEqual" -> "NotEqual"
      [] level = "equality" /\ ty = "EqualEqual" -> "Equal"
      [] level = "comparison" /\ ty = "Greater" -> "Greater"
      [] level = "comparison" /\ ty = "GreaterEqual" -> "GreaterEqual"
      [] level = "comparison" /\ ty = "Less" -> "Less"
      [] level = "comparison" /\ ty = "LessEqual" -> "LessEqual"
      [] level = "factor" /\ ty = "Minus" -> "Minus"
      [] level = "factor" /\ ty = "Plus" -> "Plus"
      [] level = "term" /\ ty = "Slash" -> "Divide"
      [] level = "term" /\ ty = "Star" -> "Multiply"
      [] level = "unary" /\ ty = "Bang" -> "Bang"
      [] level = "unary" /\ ty = "Minus" -> "Minus"
      [] OTHER -> ""

\* parse.rs:35-39, 54-60, 75-79, 94-98, 111-115: the operator a token type is
\* at a level of the grammar, "" when it is none
OperatorAt(level, ty) ==
    CASE level = "equality" /\ ty = "BangEqual" -> "NotEqual"
      [] level = "equality" /\ ty = "EqualEqual" -> "Equal"
      [] level = "comparison" /\ ty = "Greater" -> "Greater"
      [] level = "comparison" /\ ty = "GreaterEqual" -> "GreaterEqual"
      [] level = "comparison" /\ ty = "Less" -> "Less"
      [] level = "comparison" /\ ty = "LessEqual" -> "LessEqual"
      [] level = "term" /\ ty = "Minus" -> "Minus"
      [] level = "term" /\ ty = "Plus" -> "Plus"
      [] level = "factor" /\ ty = "Slash" -> "Divide"
      [] level = "factor" /\ ty = "Star" -> "Multiply"
      [] level = "unary" /\ ty = "Bang" -> "Bang"
      [] level = "unary" /\ ty = "Minus" -> "Minus"
      [] OTHER -> ""

RECURSIVE expression(_, _)
RECURSIVE equality(_, _)
RECURSIVE equality_while(_, _, _)
RECURSIVE comparison(_, _)
RECURSIVE comparison_while(_, _, _)
RECURSIVE term(_, _)
RECURSIVE term_while(_, _, _)
RECURSIVE factor(_, _)
RECURSIVE factor_while(_, _, _)
RECURSIVE unary(_, _)
RECURSIVE primary(_, _)

\* primary_group without the ensure! of ")"
primary_group_Unclosed(toks, st) ==
    Try(expression(toks, Advance(st)),
        LAMBDA expr :
            IF peek(toks, expr.st) = TokenType("RightParen")
            THEN POk(Grouping(expr.expr), Advance(Peeked(expr.st)))
            ELSE POk(Grouping(expr.expr), Peeked(expr.st)))

\* parse.rs:134-140: primary, the arm of "("; st is the state after the peek
primary_group(toks, st) ==
    Try(expression(toks, Advance(st)),
        LAMBDA expr :
            IF peek(toks, expr.st) = TokenType("RightParen")
            THEN POk(Grouping(expr.expr), Advance(Peeked(expr.st)))
            ELSE PErr("", Peeked(expr.st)))

\* primary with self.position += 1 ahead of the test of the match
primary_ConsumesFirst(toks, st0) ==
    LET t == peek(toks, st0)
        st == Peeked(st0)
    IN  IF t.ty = "False" THEN POk(Literal(LBool(FALSE)), Advance(st))
        ELSE IF t.ty = "True" THEN POk(Literal(LBool(TRUE)), Advance(st))
        ELSE IF t.ty = "Nil" THEN POk(Literal(LNil), Advance(st))
        ELSE IF t.ty = "Number" THEN POk(Literal(LNumber(t.num)), Advance(st))
        ELSE IF t.ty = "String" THEN POk(Literal(LString(t.str)), Advance(st))
        ELSE IF t.ty = "LeftParen" THEN primary_group(toks, st)
        ELSE PErr("expected expression", Advance(st))

\* Parser::primary
primary(toks, st0) ==
    LET t == peek(toks, st0)
        st == Peeked(st0)
    IN  IF t.ty = "False" THEN POk(Literal(LBool(FALSE)), Advance(st))
        ELSE IF t.ty = "True" THEN POk(Literal(LBool(TRUE)), Advance(st))
        ELSE IF t.ty = "Nil" THEN POk(Literal(LNil), Advance(st))
        ELSE IF t.ty = "Number" THEN POk(Literal(LNumber(t.num)), Advance(st))
        ELSE IF t.ty = "String" THEN POk(Literal(LString(t.str)), Advance(st))
        ELSE IF t.ty = "LeftParen" THEN primary_group(toks, st)
        ELSE PErr("expected expression", st)

\* Parser::unary
unary(toks, st0) ==
    LET operator == OperatorAt("unary", peek(toks, st0).ty)
        st == Peeked(st0)
    IN  IF operator # ""
        THEN Try(unary(toks, Advance(st)),
                 LAMBDA right : POk(UnaryExpr(operator, right.expr), right.st))
        ELSE primary(toks, st)

\* Parser::factor, its while loop
factor_while(toks, expr, st0) ==
    LET operator == OperatorAt("factor", peek(toks, st0).ty)
        st == Peeked(st0)
    IN  IF operator # ""
        THEN Try(unary(toks, Advance(st)),
                 LAMBDA right :
                     factor_while(toks, BinaryExpr(expr, operator, right.expr), right.st))
        ELSE POk(expr, st)

\* Parser::factor
factor(toks, st) ==
    Try(unary(toks, st), LAMBDA expr : factor_while(toks, expr.expr, expr.st))

\* term_while that takes the whole rest of the level as its right operand
term_while_RightAssociative(toks, expr, st0) ==
    LET operator == OperatorAt("term", peek(toks, st0).ty)
        st == Peeked(st0)
    IN  IF operator # ""
        THEN Try(term(toks, Advance(st)),
                 LAMBDA right : POk(BinaryExpr(expr, operator, right.expr), right.st))
        ELSE POk(expr, st)

\* Parser::term, its while loop
term_while(toks, expr, st0) ==
    LET operator == OperatorAt("term", peek(toks, st0).ty)
        st == Peeked(st0)
    IN  IF operator # ""
        THEN Try(factor(toks, Advance(st)),
                 LAMBDA right :
                     term_while(toks, BinaryExpr(expr, operator, right.expr), right.st))
        ELSE POk(expr, st)

\* Parser::term
term(toks, st) ==
    Try(factor(toks, st), LAMBDA expr : term_while(toks, expr.expr, expr.st))

\* Parser::comparison, its while loop
comparison_while(toks, expr, st0) ==
    LET operator == OperatorAt("comparison", peek(toks, st0).ty)
        st == Peeked(st0)
    IN  IF operator # ""
        THEN Try(term(toks, Advance(st)),
                 LAMBDA right :
                     comparison_while(toks, BinaryExpr(expr, operator, right.expr),
                                      right.st))
        ELSE POk(expr, st)

\* Parser::comparison
comparison(toks, st) ==
    Try(term(toks, st), LAMBDA expr : comparison_while(toks, expr.expr, expr.st))

\* Parser::equality, its while loop
equality_while(toks, left, st0) ==
    LET operator == OperatorAt("equality", peek(toks, st0).ty)
        st == Peeked(st0)
    IN  IF operator # ""
        THEN Try(comparison(toks, Advance(st)),
                 LAMBDA right :
                     equality_while(toks, BinaryExpr(left, operator, right.expr),
                                    right.st))
        ELSE POk(left, st)

\* Parser::equality
equality(toks, st) ==
    Try(comparison(toks, st), LAMBDA left : equality_while(toks, left.expr, left.st))

\* Parser::expression
expression(toks, st) == equality(toks, st)

\* parse that takes an expression only when Eof follows it
parse_Strict(toks) ==
    Try(expression(toks, new_Parser),
        LAMBDA expr :
            IF peek(toks, expr.st) = TokenType("Eof")
            THEN expr
            ELSE PErr("expected end of input", Peeked(expr.st)))

\* Parser::new(tokens).parse()
parse(toks) == expression(toks, new_Parser)


(***************************************************************************)
(* interpret.rs: Value and Interpreter.  evaluate returns [ok, value], or  *)
(* [ok, err] for an Err.                                                   *)
(***************************************************************************)
VNil == [variant |-> "Nil"]

VBool(b) == [variant |-> "Bool", b |-> b]

VNumber(n) == [variant |-> "Number", n |-> n]

VString(t) == [variant |-> "String", s |-> t]

\* is_truthy with the empty string falsy
is_truthy_EmptyFalsy(v) ==
    CASE v.variant = "Nil" -> FALSE
      [] v.variant = "Bool" -> v.b
      [] v.variant = "Number" -> TRUE
      [] v.variant = "String" -> v.s # <<>>

\* is_truthy with the number zero falsy
is_truthy_ZeroFalsy(v) ==
    CASE v.variant = "Nil" -> FALSE
      [] v.variant = "Bool" -> v.b
      [] v.variant = "Number" -> v.n.cls # "zero"
      [] v.variant = "String" -> TRUE

\* Value::is_truthy
is_truthy(v) ==
    CASE v.variant = "Nil" -> FALSE
      [] v.variant = "Bool" -> v.b
      [] v.variant = "Number" -> TRUE
      [] v.variant = "String" -> TRUE

\* #[derive(PartialEq)] for Value: the same variant and equal payloads
Value_eq(a, b) ==
    /\ a.variant = b.variant
    /\ CASE a.variant = "Nil" -> TRUE
         [] a.variant = "Bool" -> a.b = b.b
         [] a.variant = "Number" -> f64_eq(a.n, b.n)
         [] a.variant = "String" -> a.s = b.s

EOk(v) == [ok |-> TRUE, value |-> v]

EErr(e) == [ok |-> FALSE, err |-> e]

\* interpret.rs:123-134: evaluate, the Literal arm
eval_literal(l) ==
    CASE l.lit = "Nil" -> EOk(VNil)
      [] l.lit = "Bool" -> EOk(VBool(l.b))
      [] l.lit = "Number" -> EOk(VNumber(l.n))
      [] l.lit = "String" -> EOk(VString(l.s))

\* interpret.rs:143-150: eval_unary, the match on (expr.unary, value)
apply_unary(op, v) ==
    IF op = "Bang" THEN EOk(VBool(~is_truthy(v)))
    ELSE IF v.variant = "Number" THEN EOk(VNumber(f64_neg(v.n)))
    ELSE IF v.variant = "Nil" THEN EErr("can't '- nil'")
    ELSE IF v.variant = "Bool" THEN EErr("can't '- bool'")
    ELSE EErr("can't '- string'")

\* the arms of Operator::LessEqual with a <= b in place of a != b
eval_less_equal_Ordered(left, right) ==
    IF left.variant = "Number" /\ right.variant = "Number"
    THEN EOk(VBool(f64_lt(left.n, right.n) \/ f64_eq(left.n, right.n)))
    ELSE EErr("can <= only numbers")

\* interpret.rs:169-172: the arms of Operator::LessEqual, (a != b).into()
eval_less_equal(left, right) ==
    IF left.variant = "Number" /\ right.variant = "Number"
    THEN EOk(VBool(~f64_eq(left.n, right.n)))
    ELSE EErr("can <= only numbers")

\* interpret.rs:173-177: the arms of Operator::Equal
eval_equal(left, right) ==
    IF left.variant = "Bool" THEN EOk(VBool(left.b = is_truthy(right)))
    ELSE IF right.variant = "Bool" THEN EOk(VBool(right.b = is_truthy(left)))
    ELSE EOk(VBool(Value_eq(left, right)))

\* the arms of Operator::NotEqual, the second one left as that of Equal
eval_not_equal_Copied(left, right) ==
    IF left.variant = "Bool" THEN EOk(VBool(left.b # is_truthy(right)))
    ELSE IF right.variant = "Bool" THEN EOk(VBool(right.b = is_truthy(left)))
    ELSE EOk(VBool(~Value_eq(left, right)))

\* interpret.rs:178-182: the arms of Operator::NotEqual
eval_not_equal(left, right) ==
    IF left.variant = "Bool" THEN EOk(VBool(left.b # is_truthy(right)))
    ELSE IF right.variant = "Bool" THEN EOk(VBool(right.b # is_truthy(left)))
    ELSE EOk(VBool(~Value_eq(left, right)))

\* the arms of Operator::Plus with a string on the left taking any right operand
eval_plus_Lenient(left, right) ==
    IF left.variant = "Number" /\ right.variant = "Number"
    THEN EOk(VNumber(f64_add(left.n, right.n)))
    ELSE IF left.variant = "String"
    THEN EOk(VString(left.s \o (IF right.variant = "String" THEN right.s ELSE <<>>)))
    ELSE EErr("can only add numbers or strings (for concatenation)")

\* interpret.rs:187-196: the arms of Operator::Plus
eval_plus(left, right) ==
    IF left.variant = "Number" /\ right.variant = "Number"
    THEN EOk(VNumber(f64_add(left.n, right.n)))
    ELSE IF left.variant = "String" /\ right.variant = "String"
    THEN EOk(VString(left.s \o right.s))
    ELSE EErr("can only add numbers or strings (for concatenation)")

\* interpret.rs:156-205: eval_binary, the match on expr.operator
apply_binary(op, left, right) ==
    LET numbers == left.variant = "Number" /\ right.variant = "Number"
        a == left.n
        b == right.n
    IN  CASE op = "Greater" ->
               IF numbers THEN EOk(VBool(f64_lt(b, a))) ELSE EErr("can > only numbers")
          [] op = "GreaterEqual" ->
               IF numbers THEN EOk(VBool(f64_lt(b, a) \/ f64_eq(a, b)))
               ELSE EErr("can >= only numbers")
          [] op = "Less" ->
               IF numbers THEN EOk(VBool(f64_lt(a, b))) ELSE EErr("can < only numbers")
          [] op = "LessEqual" -> eval_less_equal(left, right)
          [] op = "Equal" -> eval_equal(left, right)
          [] op = "NotEqual" -> eval_not_equal(left, right)
          [] op = "Minus" ->
               IF numbers THEN EOk(VNumber(f64_sub(a, b)))
               ELSE EErr("can only subtract numbers")
          [] op = "Plus" -> eval_plus(left, right)
          [] op = "Divide" ->
               IF numbers THEN EOk(VNumber(f64_div(a, b)))
               ELSE EErr("can only divide numbers")
          [] op = "Multiply" ->
               IF numbers THEN EOk(VNumber(f64_mul(a, b)))
               ELSE EErr("can only multiply numbers")

RECURSIVE evaluate(_)

\* Interpreter::eval_grouping
eval_grouping(expr) == evaluate(expr.expr)

\* Interpreter::eval_unary
eval_unary(expr) ==
    Try(evaluate(expr.expr), LAMBDA v : apply_unary(expr.unary, v.value))

\* eval_binary that evaluates its right operand first
eval_binary_RightFirst(expr) ==
    Try(evaluate(expr.right),
        LAMBDA right :
            Try(evaluate(expr.left),
                LAMBDA left : apply_binary(expr.operator, left.value, right.value)))

\* Interpreter::eval_binary
eval_binary(expr) ==
    Try(evaluate(expr.left),
        LAMBDA left :
            Try(evaluate(expr.right),
                LAMBDA right : apply_binary(expr.operator, left.value, right.value)))

\* Interpreter::evaluate
evaluate(expr) ==
    CASE expr.kind = "Grouping" -> eval_grouping(expr)
      [] expr.kind = "Unary" -> eval_unary(expr)
      [] expr.kind = "Binary" -> eval_binary(expr)
      [] expr.kind = "Literal" -> eval_literal(expr.literal)

RECURSIVE evaluate_calls(_)

\* interpret.rs:123-156: the expressions evaluate is called with during
\* evaluate(expr), in the order of the calls: the ? of eval_binary returns
\* before the right operand is evaluated when the left one is an Err
evaluate_calls(expr) ==
    <<expr>> \o
        CASE expr.kind = "Grouping" -> evaluate_calls(expr.expr)
          [] expr.kind = "Unary" -> evaluate_calls(expr.expr)
          [] expr.kind = "Binary" ->
               evaluate_calls(expr.left)
                   \o (IF evaluate(expr.left).ok THEN evaluate_calls(expr.right)
                       ELSE <<>>)
          [] expr.kind = "Literal" -> <<>>


(***************************************************************************)
(* The source texts of the model: every text of at most MaxSourceLen       *)
(* characters over Alphabet, and the inputs of the repository's tests.     *)
(***************************************************************************)
Alphabet == {" ", "\n", "/", "\"", "1", ".", "+", "@", "a", "U+00E9"}

BoundedSources == UNION {[1..n -> Alphabet] : n \in 0..MaxSourceLen}

\* 123 + @200  (scanner.rs:242)
SrcResilience == <<"1", "2", "3", " ", "+", " ", "@", "2", "0", "0">>

\* !*+-/=<> <= ===  (scanner.rs:215)
SrcOperators ==
    <<"!", "*", "+", "-", "/", "=", "<", ">", " ", "<", "=", " ", "=", "=", "=", " ">>

\* "some\nmultiline\nstring" 7  (scanner.rs:418, followed by a number)
SrcMultiline == <<"\"", "s", "\n", "m", "\n", "s", "\"", " ", "7">>

\* 5 - (2 - 1)  and  5-2-1  (interpret.rs:234, spec section 8)
SrcGrouped == <<"5", " ", "-", " ", "(", "2", " ", "-", " ", "1", ")">>

SrcChained == <<"5", "-", "2", "-", "1">>

\* (0 / 0) == (0 / 0)  (interpret.rs:240)
SrcNans ==
    <<"(", "0", " ", "/", " ", "0", ")", " ", "=", "=", " ", "(", "0", " ", "/", " ", "0", ")">>

\* nil == true ; "" == true  (interpret.rs:245, 254)
SrcNilTrue == <<"n", "i", "l", " ", "=", "=", " ", "t", "r", "u", "e">>

SrcEmptyTrue == <<"\"", "\"", " ", "=", "=", " ", "t", "r", "u", "e">>

\* 1 // one\n+ 2 : a comment between two lines of an expression
SrcCommented == <<"1", " ", "/", "/", "o", "n", "e", "\n", "+", " ", "2">>

\* eof  (scanner.rs:447)
SrcEofWord == <<"e", "o", "f">>

\* : #1  (two of the invalid characters of scanner.rs:273, then a number)
SrcInvalid == <<":", " ", "#", "1">>

\* scanner.rs:430-442: tests::scan_number
SrcTrailingDot == <<"1", "0", ".">>

SrcTwoDots == <<"1", "2", ".", ".", "3", "4">>

SrcFourParts == <<"1", ".", "2", ".", "3", ".", "4">>

SrcLeadingDot == <<".", "1", "2", "3", "4">>

Corpus ==
    {SrcResilience, SrcOperators, SrcMultiline, SrcGrouped, SrcChained, SrcNans,
     SrcNilTrue, SrcEmptyTrue, SrcCommented, SrcEofWord, SrcInvalid,
     SrcTrailingDot, SrcTwoDots, SrcFourParts, SrcLeadingDot}

Sources == BoundedSources \cup Corpus

(***************************************************************************)
(* scanner.rs: scan_tokens, one action per arm of its loop.                *)
(***************************************************************************)
\* what is remembered of a call of scan_token: its input, how many tokens had
\* been pushed when it was made, and what it returned
NoCall ==
    [input |-> <<>>, pushed |-> 0, lines |-> 0, remainder |-> <<>>,
     result |-> [is |-> "NoCall"]]

Call(input, toks) == [input |-> input, pushed |-> Len(toks)] @@ scan_token(input)

Eof == TokenType("Eof")

\* scanner.rs:14-16,20,26: Ok(Some(token)): push it, count its lines, go on
ScanPush ==
    /\ pc = "scan"
    /\ source # <<>>
    /\ LET r == scan_token(source)
       IN  /\ r.result.is = "Some"
           /\ tokens' = Append(tokens, Token(r.result.token, line))
           /\ line' = line + r.lines
           /\ source' = r.remainder
           /\ last' = Call(source, tokens)
    /\ UNCHANGED <<text, parsed, value, pc>>

\* ScanBreak with a return in the place of the break: no Eof is pushed
ScanBreak_Returns ==
    /\ pc = "scan"
    /\ source # <<>>
    /\ scan_token(source).result.is = "None"
    /\ last' = Call(source, tokens)
    /\ pc' = "scanned"
    /\ UNCHANGED <<text, source, line, tokens, parsed, value>>

\* scanner.rs:17-19,29-33: Ok(None): leave the loop, push Eof, return
ScanBreak ==
    /\ pc = "scan"
    /\ source # <<>>
    /\ scan_token(source).result.is = "None"
    /\ last' = Call(source, tokens)
    /\ tokens' = Append(tokens, Token(Eof, line))
    /\ pc' = "scanned"
    /\ UNCHANGED <<text, source, line, parsed, value>>

\* ScanError giving up at the first error: the loop is left, Eof is pushed
ScanError_Stops ==
    /\ pc = "scan"
    /\ source # <<>>
    /\ LET r == scan_token(source)
       IN  /\ r.result.is = "Err"
           /\ source' = r.remainder
           /\ last' = Call(source, tokens)
    /\ tokens' = Append(tokens, Token(Eof, line))
    /\ pc' = "scanned"
    /\ UNCHANGED <<text, line, parsed, value>>

\* scanner.rs:22-24,26: Err: report it and go on with the remainder
ScanError ==
    /\ pc = "scan"
    /\ source # <<>>
    /\ LET r == scan_token(source)
       IN  /\ r.result.is = "Err"
           /\ source' = r.remainder
           /\ last' = Call(source, tokens)
    /\ UNCHANGED <<text, line, tokens, parsed, value, pc>>

\* scanner.rs:182: split_at panics, and scan_tokens with it
ScanPanic ==
    /\ pc = "scan"
    /\ source # <<>>
    /\ scan_token(source).result.is = "Panic"
    /\ last' = Call(source, tokens)
    /\ pc' = "panicked"
    /\ UNCHANGED <<text, source, line, tokens, parsed, value>>

\* scanner.rs:11,29-33: the source is used up: push Eof, return
ScanReturn ==
    /\ pc = "scan"
    /\ source = <<>>
    /\ tokens' = Append(tokens, Token(Eof, line))
    /\ pc' = "scanned"
    /\ UNCHANGED <<text, source, line, last, parsed, value>>

RECURSIVE scan_tokens_from(_, _, _)
\* scanner.rs:11-33: scan_tokens from the head of its loop, with what is left
\* of the source, the line counter and the tokens pushed so far: what it
\* returns, [pc |-> "scanned", tokens], or [pc |-> "panicked", tokens] (the
\* tokens pushed before the panic, which nobody gets)
scan_tokens_from(src, ln, toks) ==
    IF src = <<>> THEN [pc |-> "scanned", tokens |-> Append(toks, Token(Eof, ln))]
    ELSE Bind(scan_token(src),
              LAMBDA r :
                 CASE r.result.is = "Some" ->
                        scan_tokens_from(r.remainder, ln + r.lines,
                                         Append(toks, Token(r.result.token, ln)))
                   [] r.result.is = "None" ->
                        [pc |-> "scanned", tokens |-> Append(toks, Token(Eof, ln))]
                   [] r.result.is = "Err" -> scan_tokens_from(r.remainder, ln, toks)
                   [] r.result.is = "Panic" -> [pc |-> "panicked", tokens |-> toks])

\* scan_tokens(source)
scan_tokens(src) == scan_tokens_from(src, 1, <<>>)

NotYet == [is |-> "NotYet"]

\* scanner.rs:8-10: scan_tokens is entered with a source text
Init ==
    /\ text \in Sources
    /\ source = text
    /\ line = 1
    /\ tokens = <<>>
    /\ last = NoCall
    /\ parsed = NotYet
    /\ value = NotYet
    /\ pc = "scan"

\* main.rs:50-59: the tokens of the line are parsed
Parse ==
    /\ pc = "scanned"
    /\ parsed' = parse(tokens)
    /\ pc' = "parsed"
    /\ UNCHANGED <<text, source, line, tokens, last, value>>

\* main.rs:61-69: the expression, when there is one, is evaluated
Evaluate ==
    /\ pc = "parsed"
    /\ parsed.ok
    /\ value' = evaluate(parsed.expr)
    /\ pc' = "evaluated"
    /\ UNCHANGED <<text, source, line, tokens, last, parsed>>

Next ==
    \/ ScanPush
    \/ ScanBreak
    \/ ScanError
    \/ ScanPanic
    \/ ScanReturn
    \/ Parse
    \/ Evaluate

\* one line of the prompt: scan_tokens, Parser::parse, Interpreter::evaluate
Spec == Init /\ [][Next]_vars

(***************************************************************************)
(* The parser on its own: Parser::new is handed a token sequence that ends *)
(* with Eof, as scan_tokens returns them.  The sequences are all those of  *)
(* at most MaxTokens tokens over ParserTokens, and the families            *)
(* a op b op c, a op ( b op c ), u a op b, a op u b op c and               *)
(* a op b op c op d over every operator.                                   *)
(***************************************************************************)
Num(n) == Number(Fin(n, 1))

ParserTokens ==
    {Num(1), String(<<"a">>), TokenType("True"), TokenType("Nil"),
     TokenType("LeftParen"), TokenType("RightParen"), TokenType("Bang"),
     TokenType("Minus"), TokenType("Star"), TokenType("Less"),
     TokenType("EqualEqual"), Identifier(<<"a">>)}

OperandTokens == {Num(5), Num(2), Num(1), TokenType("Nil")}

BinaryTokens ==
    {TokenType(ty) : ty \in {"BangEqual", "EqualEqual", "Greater", "GreaterEqual",
                             "Less", "LessEqual", "Minus", "Plus", "Slash", "Star"}}

UnaryTokens == {TokenType("Bang"), TokenType("Minus")}

BoundedTokenTypes == UNION {[1..n -> ParserTokens] : n \in 0..MaxTokens}

Chains ==
    {<<a, op1, b, op2, c>> :
        a \in OperandTokens, b \in OperandTokens, c \in OperandTokens,
        op1 \in BinaryTokens, op2 \in BinaryTokens}

GroupedChains ==
    {<<a, op1, TokenType("LeftParen"), b, op2, c, TokenType("RightParen")>> :
        a \in {Num(5)}, b \in OperandTokens, c \in OperandTokens,
        op1 \in BinaryTokens, op2 \in BinaryTokens}

PrefixedChains ==
    {<<u, a, op, b>> :
        u \in UnaryTokens, a \in OperandTokens, op \in BinaryTokens,
        b \in OperandTokens}

MixedChains ==
    {<<Num(1), op1, u, Num(2), op2, Num(5)>> :
        op1 \in BinaryTokens, u \in UnaryTokens, op2 \in BinaryTokens}

LongChains ==
    {<<Num(1), op1, Num(2), op2, Num(5), op3, Num(1)>> :
        op1 \in BinaryTokens, op2 \in BinaryTokens, op3 \in BinaryTokens}

TokenTypeSeqs ==
    BoundedTokenTypes \cup Chains \cup GroupedChains \cup PrefixedChains
        \cup MixedChains \cup LongChains

\* the tokens of a line: the token types, each on line 1, then Eof
Tokens(tys) == [i \in 1..Len(tys) |-> Token(tys[i], 1)] \o <<Token(Eof, 1)>>

InitParse ==
    /\ text = <<>>
    /\ source = <<>>
    /\ line = 1
    /\ tokens \in {Tokens(tys) : tys \in TokenTypeSeqs}
    /\ last = NoCall
    /\ parsed = NotYet
    /\ value = NotYet
    /\ pc = "scanned"

NextParse ==
    \/ Parse
    \/ Evaluate

SpecParse == InitParse /\ [][NextParse]_vars

(***************************************************************************)
(* The evaluator on its own: evaluate is handed a literal, a group, or a   *)
(* unary or binary expression over literals or over the expressions of     *)
(* Operands.  The literals are nil, the booleans, the numbers              *)
(* -MaxNumber..MaxNumber, -0, the infinities and NaN, and the strings "",  *)
(* "a", "b".                                                               *)
(***************************************************************************)
Numbers ==
    {Fin(n, 1) : n \in (-MaxNumber)..MaxNumber} \cup {Zero(-1), Inf(1), Inf(-1), NaN}

Strings == {<<>>, <<"a">>, <<"b">>}

Literals ==
    {LNil, LBool(TRUE), LBool(FALSE)}
        \cup {LNumber(n) : n \in Numbers} \cup {LString(t) : t \in Strings}

Operators ==
    {"Greater", "GreaterEqual", "Less", "LessEqual", "Equal", "NotEqual",
     "Minus", "Plus", "Divide", "Multiply"}

Unaries == {"Bang", "Minus"}

\* operands that are expressions themselves: some evaluate to a value of
\* each variant, some to each of the errors
Operands ==
    {Literal(LNumber(Fin(1, 1))), Literal(LString(<<"a">>)), Literal(LNil),
     Literal(LBool(TRUE)),
     Grouping(Literal(LNumber(Fin(2, 1)))),
     UnaryExpr("Minus", Literal(LNil)),
     UnaryExpr("Minus", Literal(LBool(TRUE))),
     UnaryExpr("Minus", Literal(LString(<<"a">>))),
     UnaryExpr("Bang", Literal(LNil)),
     BinaryExpr(Literal(LNumber(Fin(1, 1))), "Plus", Literal(LString(<<"a">>))),
     BinaryExpr(Literal(LNumber(Fin(1, 1))), "Less", Literal(LNil)),
     BinaryExpr(Literal(LString(<<"a">>)), "Plus", Literal(LString(<<"b">>)))}

Exprs ==
    {BinaryExpr(Literal(a), op, Literal(b)) :
        a \in Literals, op \in Operators, b \in Literals}
    \cup {UnaryExpr(u, Literal(a)) : u \in Unaries, a \in Literals}
    \cup {UnaryExpr(u, UnaryExpr(v, Literal(a))) :
            u \in Unaries, v \in Unaries, a \in Literals}
    \cup {BinaryExpr(x, op, y) : x \in Operands, op \in Operators, y \in Operands}
    \cup {UnaryExpr(u, x) : u \in Unaries, x \in Operands}
    \cup {Grouping(x) : x \in Operands}
    \cup {Literal(a) : a \in Literals}

InitEval ==
    /\ text = <<>>
    /\ source = <<>>
    /\ line = 1
    /\ tokens = <<>>
    /\ last = NoCall
    /\ parsed \in {POk(e, new_Parser) : e \in Exprs}
    /\ value = NotYet
    /\ pc = "parsed"

NextEval == Evaluate

SpecEval == InitEval /\ [][NextEval]_vars

(***************************************************************************)
(* The claims about the scanner, under Spec.                               *)
(***************************************************************************)
Returned_tokens == pc \in {"scanned", "parsed", "evaluated"}

TypesOf(toks) == [i \in 1..Len(toks) |-> toks[i].ty]

\* the characters scan_token gives a meaning to, besides whitespace and the
\* characters of words
RecognisedCharacters ==
    {"(", ")", "{", "}", ".", ",", "-", "+", ";", "*", "/", "!", "=", ">", "<", "\""}

IsInvalidCharacter(c) ==
    /\ ~is_whitespace(c)
    /\ ~is_alphanumeric(c)
    /\ c # "_"
    /\ c \notin RecognisedCharacters

\* the next character scan_token looks at is an invalid character
InvalidAhead(src) ==
    trim_start(src) # <<>> /\ IsInvalidCharacter(Head(trim_start(src)))

\* the next thing scan_token looks at is a // comment
CommentAhead(src) ==
    /\ Len(trim_start(src)) >= 2
    /\ trim_start(src)[1] = "/"
    /\ trim_start(src)[2] = "/"

\* what follows the end of the first line of s
AfterLine(s) ==
    IF Position(s, LAMBDA ch : ch = "\n") = 0 THEN <<>>
    ELSE Drop(s, Position(s, LAMBDA ch : ch = "\n"))

\* the part of the source text before the first character of the token that
\* a call of scan_token found
BeforeToken(call) == SubSeq(text, 1, Len(text) - Len(trim_start(call.input)))

\* C1: the token sequence scan_tokens returns ends with an Eof token, and
\* holds no Eof token before its last.
C1_EndsWithOneEof ==
    Returned_tokens =>
        /\ Len(tokens) >= 1
        /\ tokens[Len(tokens)].ty = Eof
        /\ \A i \in 1..(Len(tokens) - 1) : tokens[i].ty # Eof

\* scan_tokens has returned a token and Eof for a source whose last call of
\* scan_token was a scan error
C1_Witness ==
    pc = "scanned" /\ Len(tokens) >= 2 /\ last.result.is = "Err"

\* C2: a // comment followed by a newline and further text is consumed
\* through the end of its line, gives no token, and scanning goes on: the
\* result is the tokens before the comment, then the tokens of the text
\* after the comment's line, then Eof.
C2_CommentedLineSkipped ==
    (/\ pc = "scanned"
     /\ CommentAhead(last.input)
     /\ AfterLine(trim_start(last.input)) # <<>>) =>
        /\ last.remainder = AfterLine(trim_start(last.input))
        /\ TypesOf(tokens) =
              TypesOf(SubSeq(tokens, 1, last.pushed))
                \o TypesOf(scan_tokens_from(AfterLine(trim_start(last.input)),
                                            line, <<>>).tokens)

\* C3: the line counter goes up once per "\n" of the source: a token's line
\* is 1 plus the number of "\n" before its first character, and the line of
\* Eof is 1 plus the number of "\n" of the source.
C3_LinePerNewline ==
    /\ (pc = "scan" /\ last.result.is = "Some") =>
          tokens[Len(tokens)].line = 1 + Count(BeforeToken(last), "\n")
    /\ pc = "scanned" =>
          tokens[Len(tokens)].line = 1 + Count(text, "\n")

\* C4: scan_tokens returns Ok for every source text: it never panics.
C4_NeverFails == pc # "panicked"

\* C5, one iteration: with an invalid character ahead, the iteration of the
\* loop pushes no token, leaves the line counter alone, consumes the
\* whitespace before the character and the character itself, reports an
\* error and goes on scanning.
C5_Step ==
    (pc = "scan" /\ InvalidAhead(source)) =>
        /\ tokens' = tokens
        /\ line' = line
        /\ source' = Tail(trim_start(source))
        /\ last'.result.is = "Err"
        /\ pc' = "scan"

\* C5, the result: with an invalid character ahead, scan_tokens returns what
\* it returns with a space in the place of the character (every token that
\* follows the character is still pushed, in order, before Eof); and the
\* result for 123 + @200 is Number(123), Plus, Number(200), Eof.
C5_Result ==
    /\ (pc = "scan" /\ InvalidAhead(source)) =>
          scan_tokens_from(source, line, tokens)
            = scan_tokens_from(<<" ">> \o Tail(trim_start(source)), line, tokens)
    /\ (pc = "scanned" /\ text = SrcResilience) =>
          tokens = <<Token(Number(Fin(123, 1)), 1), Token(TokenType("Plus"), 1),
                     Token(Number(Fin(200, 1)), 1), Token(Eof, 1)>>

\* C5: an invalid character is a scan error that gives no token, consumes
\* exactly that character and does not stop the scan.
C5_InvalidCharacterSkipped == [][C5_Step]_vars /\ []C5_Result

\* scan_tokens has returned the four tokens of 123 + @200
C5_Witness ==
    pc = "scanned" /\ text = SrcResilience /\ Len(tokens) = 4

(***************************************************************************)
(* The claims about the parser, under SpecParse.                           *)
(***************************************************************************)
Returned_parsed == pc \in {"parsed", "evaluated"}

\* the token types the parser was handed, Eof included
Types == TypesOf(tokens)

\* the levels of the grammar, from the loosest: equality 1, comparison 2,
\* term 3, factor 4, unary 5
LevelOfToken(ty) ==
    CASE ty.ty \in {"BangEqual", "EqualEqual"} -> 1
      [] ty.ty \in {"Greater", "GreaterEqual", "Less", "LessEqual"} -> 2
      [] ty.ty \in {"Minus", "Plus"} -> 3
      [] ty.ty \in {"Slash", "Star"} -> 4

LevelOfOperator(op) ==
    CASE op \in {"NotEqual", "Equal"} -> 1
      [] op \in {"Greater", "GreaterEqual", "Less", "LessEqual"} -> 2
      [] op \in {"Minus", "Plus"} -> 3
      [] op \in {"Divide", "Multiply"} -> 4

\* the operator a token stands for
OperatorOf(ty) ==
    CASE ty.ty = "BangEqual" -> "NotEqual"
      [] ty.ty = "EqualEqual" -> "Equal"
      [] ty.ty = "Slash" -> "Divide"
      [] ty.ty = "Star" -> "Multiply"
      [] OTHER -> ty.ty

\* the literal a token stands for
OperandOf(ty) ==
    CASE ty.ty = "Number" -> Literal(LNumber(ty.num))
      [] ty.ty = "String" -> Literal(LString(ty.str))
      [] ty.ty = "True" -> Literal(LBool(TRUE))
      [] ty.ty = "False" -> Literal(LBool(FALSE))
      [] ty.ty = "Nil" -> Literal(LNil)

IsOperand(ty) == ty.ty \in {"Number", "String", "True", "False", "Nil"}

IsBinary(ty) == ty \in BinaryTokens

IsUnary(ty) == ty \in UnaryTokens

Five == Num(5)

Two == Num(2)

One == Num(1)

Minus == TokenType("Minus")

\* a op1 b op2 c, and nothing else, was parsed
IsChain ==
    /\ Len(Types) = 6
    /\ IsOperand(Types[1]) /\ IsBinary(Types[2]) /\ IsOperand(Types[3])
    /\ IsBinary(Types[4]) /\ IsOperand(Types[5])

LeftNested ==
    BinaryExpr(BinaryExpr(OperandOf(Types[1]), OperatorOf(Types[2]),
                          OperandOf(Types[3])),
               OperatorOf(Types[4]), OperandOf(Types[5]))

RightNested ==
    BinaryExpr(OperandOf(Types[1]), OperatorOf(Types[2]),
               BinaryExpr(OperandOf(Types[3]), OperatorOf(Types[4]),
                          OperandOf(Types[5])))

\* C6: a op1 b op2 c with op1 and op2 of one level parses to
\* Binary(Binary(a, op1, b), op2, c) and not to Binary(a, op1, Binary(b, op2, c));
\* 5 - 2 - 1 evaluates to 2 and 5 - ( 2 - 1 ) to 4
C6_LeftAssociative ==
    /\ Returned_parsed /\ IsChain /\ LevelOfToken(Types[2]) = LevelOfToken(Types[4])
         => parsed.ok /\ parsed.expr = LeftNested /\ parsed.expr # RightNested
    /\ pc = "evaluated" /\ Types = <<Five, Minus, Two, Minus, One, Eof>>
         => value = EOk(VNumber(Fin(2, 1)))
    /\ pc = "evaluated"
            /\ Types = <<Five, Minus, TokenType("LeftParen"), Two, Minus, One,
                         TokenType("RightParen"), Eof>>
         => value = EOk(VNumber(Fin(4, 1)))

\* 5 - 2 - 1 was parsed to (5 - 2) - 1 and evaluated to 2
C6_Witness ==
    /\ pc = "evaluated"
    /\ Types = <<Five, Minus, Two, Minus, One, Eof>>
    /\ parsed.expr = LeftNested
    /\ value = EOk(VNumber(Fin(2, 1)))

RECURSIVE OperatorsOf(_, _)

\* the operators of an expression without groups, in the order of the text,
\* each with its level and the path from the root to its node
OperatorsOf(e, path) ==
    CASE e.kind = "Literal" -> <<>>
      [] e.kind = "Unary" ->
           <<[level |-> 5, path |-> path]>>
               \o OperatorsOf(e.expr, Append(path, "expr"))
      [] e.kind = "Binary" ->
           OperatorsOf(e.left, Append(path, "left"))
               \o <<[level |-> LevelOfOperator(e.operator), path |-> path]>>
               \o OperatorsOf(e.right, Append(path, "right"))

RECURSIVE Flatten(_)

\* the operands and operators of an expression without groups, in the order
\* of the text
Flatten(e) ==
    CASE e.kind = "Literal" -> <<e>>
      [] e.kind = "Unary" -> <<e.unary>> \o Flatten(e.expr)
      [] e.kind = "Binary" -> Flatten(e.left) \o <<e.operator>> \o Flatten(e.right)

\* the operands and operators the first n tokens stand for
Symbols(n) ==
    [i \in 1..n |-> IF IsOperand(Types[i]) THEN OperandOf(Types[i])
                    ELSE OperatorOf(Types[i])]

\* the node at path p is in a subtree of the node at path q
IsBelow(p, q) == Len(q) < Len(p) /\ SubSeq(p, 1, Len(q)) = q

\* the tokens parse has consumed hold no parenthesis
NoParentheses ==
    \A i \in 1..parsed.st.position : Types[i].ty \notin {"LeftParen", "RightParen"}

\* of two operators next to each other in the text, the one of the tighter
\* level is in a subtree of the one of the looser level
Layered ==
    LET ops == OperatorsOf(parsed.expr, <<>>)
    IN  \A i \in 1..(Len(ops) - 1) :
            /\ ops[i].level < ops[i + 1].level => IsBelow(ops[i + 1].path, ops[i].path)
            /\ ops[i].level > ops[i + 1].level => IsBelow(ops[i].path, ops[i + 1].path)

\* u a op b, and nothing else, was parsed
IsPrefixedChain ==
    /\ Len(Types) = 5
    /\ IsUnary(Types[1]) /\ IsOperand(Types[2]) /\ IsBinary(Types[3])
    /\ IsOperand(Types[4])

\* u v x, and nothing else, was parsed
IsStack ==
    /\ Len(Types) = 4
    /\ IsUnary(Types[1]) /\ IsUnary(Types[2]) /\ IsOperand(Types[3])

\* C7: the levels equality < comparison < term < factor < unary are layered:
\* the tree of a token sequence without parentheses holds the consumed tokens
\* in their order, and of two operators next to each other the tighter one is
\* in a subtree of the looser one (a op1 b op2 c with op2 tighter parses to
\* Binary(a, op1, Binary(b, op2, c)), with op1 tighter to
\* Binary(Binary(a, op1, b), op2, c), u a op b to Binary(Unary(u, a), op, b));
\* prefix operators stack to the right: u v x parses to Unary(u, Unary(v, x))
C7_Precedence ==
    Returned_parsed =>
        /\ parsed.ok /\ NoParentheses
             => Flatten(parsed.expr) = Symbols(parsed.st.position) /\ Layered
        /\ IsChain /\ LevelOfToken(Types[2]) < LevelOfToken(Types[4])
             => parsed.ok /\ parsed.expr = RightNested
        /\ IsChain /\ LevelOfToken(Types[2]) > LevelOfToken(Types[4])
             => parsed.ok /\ parsed.expr = LeftNested
        /\ IsPrefixedChain
             => /\ parsed.ok
                /\ parsed.expr =
                       BinaryExpr(UnaryExpr(OperatorOf(Types[1]), OperandOf(Types[2])),
                                  OperatorOf(Types[3]), OperandOf(Types[4]))
        /\ IsStack
             => /\ parsed.ok
                /\ parsed.expr =
                       UnaryExpr(OperatorOf(Types[1]),
                                 UnaryExpr(OperatorOf(Types[2]), OperandOf(Types[3])))

\* 1 + 2 * 5 was parsed to 1 + (2 * 5)
C7_Witness ==
    /\ pc = "parsed"
    /\ Types = <<One, TokenType("Plus"), Two, TokenType("Star"), Five, Eof>>
    /\ parsed.ok
    /\ parsed.expr = RightNested

RECURSIVE Descent(_, _, _, _)

\* where the descent over the token types tys ends, from position i (0-based)
\* inside depth open groups: required says that a primary is required at i.
\* It fails at a token that is no primary where one is required, and at a
\* token that is neither a binary operator nor ")" after the inner expression
\* of a group; it succeeds at the first token that does not continue the
\* expression outside every group.
Descent(tys, i, required, depth) ==
    LET ty == IF i < Len(tys) THEN tys[i + 1] ELSE None
    IN  IF required
        THEN IF IsUnary(ty) THEN Descent(tys, i + 1, TRUE, depth)
             ELSE IF ty.ty = "LeftParen" THEN Descent(tys, i + 1, TRUE, depth + 1)
             ELSE IF IsOperand(ty) THEN Descent(tys, i + 1, FALSE, depth)
             ELSE [ok |-> FALSE, at |-> i, err |-> "expected expression"]
        ELSE IF IsBinary(ty) THEN Descent(tys, i + 1, TRUE, depth)
             ELSE IF depth = 0 THEN [ok |-> TRUE, at |-> i]
             ELSE IF ty.ty = "RightParen" THEN Descent(tys, i + 1, FALSE, depth - 1)
             ELSE [ok |-> FALSE, at |-> i, err |-> ""]

\* C8: parse returns an error, and no expression, exactly when the descent
\* comes to a token that is no NUMBER, STRING, true, false, nil or "(" where
\* a primary is required, or to a token that is no ")" after the inner
\* expression of a group; the parser stops at that token, has examined no
\* token after it, and nothing is evaluated
C8_FailsAsAWhole ==
    Returned_parsed =>
        LET d == Descent(Types, 0, TRUE, 0)
        IN  /\ parsed.ok <=> d.ok
            /\ parsed.ok => "expr" \in DOMAIN parsed /\ "err" \notin DOMAIN parsed
            /\ ~parsed.ok =>
                   /\ "expr" \notin DOMAIN parsed
                   /\ parsed.err = d.err
                   /\ parsed.st.position = d.at
                   /\ \A k \in 1..Len(parsed.st.peeks) : parsed.st.peeks[k] <= d.at
                   /\ pc = "parsed"
                   /\ value = NotYet

\* parse has failed at a token that tokens other than Eof follow
C8_Witness ==
    /\ pc = "parsed"
    /\ ~parsed.ok
    /\ parsed.st.position + 2 < Len(tokens)

\* the first n tokens, and Eof after them
Prefix(n) == SubSeq(tokens, 1, n) \o <<Token(Eof, 1)>>

\* C9: when the first n tokens are a complete expression and the token after
\* them is no binary operator, parse returns Ok with the expression of those
\* n tokens, whatever the tokens after them are (1 1, 1 ) and 1 a parse to
\* the literal 1)
C9_TrailingTokensIgnored ==
    Returned_parsed =>
        /\ \A n \in 1..(Len(tokens) - 2) :
               LET prefix == parse(Prefix(n))
               IN  prefix.ok /\ prefix.st.position = n /\ ~IsBinary(Types[n + 1])
                       => /\ parsed.ok
                          /\ parsed.expr = prefix.expr
                          /\ parsed.st.position = n
        /\ Types \in {<<One, One, Eof>>, <<One, TokenType("RightParen"), Eof>>,
                      <<One, Identifier(<<"a">>), Eof>>}
               => parsed.ok /\ parsed.expr = Literal(LNumber(Fin(1, 1)))

\* 1 ) was parsed to the literal 1
C9_Witness ==
    /\ pc = "parsed"
    /\ Types = <<One, TokenType("RightParen"), Eof>>
    /\ parsed.ok
    /\ parsed.st.position = 1

(***************************************************************************)
(* The claims about the evaluator, under SpecEval.                         *)
(***************************************************************************)
\* the value of a literal
ValueOf(e) ==
    CASE e.literal.lit = "Nil" -> VNil
      [] e.literal.lit = "Bool" -> VBool(e.literal.b)
      [] e.literal.lit = "Number" -> VNumber(e.literal.n)
      [] e.literal.lit = "String" -> VString(e.literal.s)

\* nil and false are falsy, every other value is truthy
Truthy(v) == v \notin {VNil, VBool(FALSE)}

\* the same variant and an equal payload: a NaN equals nothing, the two
\* zeros are equal
SamePayload(a, b) ==
    /\ a.variant = b.variant
    /\ a.variant = "Number" =>
           /\ a.n.cls # "nan" /\ b.n.cls # "nan"
           /\ a.n = b.n \/ (a.n.cls = "zero" /\ b.n.cls = "zero")
    /\ a.variant = "String" => a.s = b.s

\* a == b by the rule of boolean coercion
CoercedEqual(a, b) ==
    IF a.variant = "Bool" THEN a.b = Truthy(b)
    ELSE IF b.variant = "Bool" THEN b.b = Truthy(a)
    ELSE SamePayload(a, b)

\* a == b or a != b over two literals was evaluated
IsEquality ==
    /\ pc = "evaluated"
    /\ parsed.expr.kind = "Binary"
    /\ parsed.expr.operator \in {"Equal", "NotEqual"}
    /\ parsed.expr.left.kind = "Literal"
    /\ parsed.expr.right.kind = "Literal"

EqualOf(a, b) == BinaryExpr(Literal(a), "Equal", Literal(b))

\* C10: a == b is true iff, when one of them is a boolean, that boolean
\* equals the truthiness of the other, and otherwise iff both are of one
\* variant with equal payloads (a NaN equals nothing); a != b is its
\* negation; neither returns an error
C10_BooleanCoercion ==
    /\ IsEquality =>
           LET a == ValueOf(parsed.expr.left)
               b == ValueOf(parsed.expr.right)
           IN  /\ value.ok
               /\ parsed.expr.operator = "Equal" => value.value = VBool(CoercedEqual(a, b))
               /\ parsed.expr.operator = "NotEqual"
                      => value.value = VBool(~CoercedEqual(a, b))
    /\ pc = "evaluated" =>
           /\ parsed.expr \in {EqualOf(LNumber(Fin(1, 1)), LBool(TRUE)),
                               EqualOf(LNumber(Fin(0, 1)), LBool(TRUE)),
                               EqualOf(LString(<<>>), LBool(TRUE)),
                               EqualOf(LNil, LBool(FALSE))}
                  => value = EOk(VBool(TRUE))
           /\ parsed.expr \in {EqualOf(LNil, LBool(TRUE)), EqualOf(LNumber(NaN), LNumber(NaN)),
                               EqualOf(LNumber(Fin(1, 1)), LString(<<>>))}
                  => value = EOk(VBool(FALSE))

\* 0 == true was evaluated to true
C10_Witness ==
    /\ pc = "evaluated"
    /\ parsed.expr = EqualOf(LNumber(Fin(0, 1)), LBool(TRUE))
    /\ value = EOk(VBool(TRUE))

\* the number a literal of the model denotes is below that of another: no
\* NaN is below or above anything, the two zeros are one number
Below(x, y) ==
    /\ x.cls # "nan" /\ y.cls # "nan"
    /\ CASE x.cls = "inf" /\ x.num = 1 -> FALSE
         [] y.cls = "inf" /\ y.num = -1 -> FALSE
         [] x.cls = "inf" /\ x.num = -1 -> TRUE
         [] y.cls = "inf" /\ y.num = 1 -> TRUE
         [] OTHER ->
              LET p == IF x.cls = "zero" THEN 0 ELSE x.num
                  q == IF y.cls = "zero" THEN 0 ELSE y.num
              IN  p * y.den < q * x.den

\* the two numbers are equal: a NaN equals nothing
Same(x, y) == ~Below(x, y) /\ ~Below(y, x) /\ x.cls # "nan" /\ y.cls # "nan"

\* a comparison of two number literals was evaluated
IsComparison ==
    /\ pc = "evaluated"
    /\ parsed.expr.kind = "Binary"
    /\ parsed.expr.operator \in {"Greater", "GreaterEqual", "Less", "LessEqual"}
    /\ parsed.expr.left.kind = "Literal" /\ parsed.expr.left.literal.lit = "Number"
    /\ parsed.expr.right.kind = "Literal" /\ parsed.expr.right.literal.lit = "Number"

CompareOf(a, op, b) ==
    BinaryExpr(Literal(LNumber(Fin(a, 1))), op, Literal(LNumber(Fin(b, 1))))

\* C11: on two numbers a <= b is the boolean "a is not equal to b" (1 <= 1 is
\* false, 2 <= 1 is true), and a > b, a >= b, a < b are greater, greater or
\* equal, and less
C11_LessEqualIsNotEqual ==
    /\ IsComparison =>
           LET a == parsed.expr.left.literal.n
               b == parsed.expr.right.literal.n
               op == parsed.expr.operator
           IN  /\ op = "LessEqual" => value = EOk(VBool(~Same(a, b)))
               /\ op = "Greater" => value = EOk(VBool(Below(b, a)))
               /\ op = "GreaterEqual" => value = EOk(VBool(Below(b, a) \/ Same(a, b)))
               /\ op = "Less" => value = EOk(VBool(Below(a, b)))
    /\ pc = "evaluated" /\ parsed.expr = CompareOf(1, "LessEqual", 1)
           => value = EOk(VBool(FALSE))
    /\ pc = "evaluated" /\ parsed.expr = CompareOf(2, "LessEqual", 1)
           => value = EOk(VBool(TRUE))

\* 2 <= 1 was evaluated to true
C11_Witness ==
    /\ pc = "evaluated"
    /\ parsed.expr = CompareOf(2, "LessEqual", 1)
    /\ value = EOk(VBool(TRUE))

RECURSIVE VariantOf(_)

\* the variant of the value of an expression, "TypeError" when an operator
\* in it is applied to operand values it does not support
VariantOf(e) ==
    CASE e.kind = "Literal" -> e.literal.lit
      [] e.kind = "Grouping" -> VariantOf(e.expr)
      [] e.kind = "Unary" ->
           LET v == VariantOf(e.expr)
           IN  IF v = "TypeError" THEN "TypeError"
               ELSE IF e.unary = "Bang" THEN "Bool"
               ELSE IF v = "Number" THEN "Number"
               ELSE "TypeError"
      [] e.kind = "Binary" ->
           LET l == VariantOf(e.left)
               r == VariantOf(e.right)
               op == e.operator
           IN  IF l = "TypeError" \/ r = "TypeError" THEN "TypeError"
               ELSE IF op \in {"Equal", "NotEqual"} THEN "Bool"
               ELSE IF op \in {"Greater", "GreaterEqual", "Less", "LessEqual"}
               THEN (IF l = "Number" /\ r = "Number" THEN "Bool" ELSE "TypeError")
               ELSE IF op \in {"Minus", "Divide", "Multiply"}
               THEN (IF l = "Number" /\ r = "Number" THEN "Number" ELSE "TypeError")
               ELSE IF l = "Number" /\ r = "Number" THEN "Number"
               ELSE IF l = "String" /\ r = "String" THEN "String"
               ELSE "TypeError"

\* an operator over two literals of the given kind was evaluated
IsApplied(op, lit) ==
    /\ pc = "evaluated"
    /\ parsed.expr.kind = "Binary"
    /\ parsed.expr.operator = op
    /\ parsed.expr.left.kind = "Literal" /\ parsed.expr.left.literal.lit = lit
    /\ parsed.expr.right.kind = "Literal" /\ parsed.expr.right.literal.lit = lit

\* the number is an integer, and which
IsInteger(x) == x.cls \in {"fin", "zero"} /\ x.den = 1

IntegerOf(x) == IF x.cls = "zero" THEN 0 ELSE x.num

\* C12: evaluate returns an error iff an operator in the tree is applied to
\* operand values it does not support (unary - to no number; > >= < <= - / *
\* to an operand that is no number; + to operands that are neither two
\* numbers nor two strings), and a value of the expected variant otherwise:
\* number + number is the sum, string + string the left text followed by
\* the right text, number / number never fails, also not by zero
C12_TypeErrors ==
    /\ pc = "evaluated" =>
           /\ value.ok <=> VariantOf(parsed.expr) # "TypeError"
           /\ value.ok =>
                  /\ "err" \notin DOMAIN value
                  /\ value.value.variant = VariantOf(parsed.expr)
           /\ ~value.ok => "value" \notin DOMAIN value
    /\ IsApplied("Plus", "String") =>
           value = EOk(VString(parsed.expr.left.literal.s \o parsed.expr.right.literal.s))
    /\ IsApplied("Plus", "Number") =>
           LET a == parsed.expr.left.literal.n
               b == parsed.expr.right.literal.n
           IN  IsInteger(a) /\ IsInteger(b) =>
                   /\ value.ok
                   /\ Same(value.value.n, Fin(IntegerOf(a) + IntegerOf(b), 1))
    /\ IsApplied("Divide", "Number") =>
           /\ value.ok
           /\ value.value.variant = "Number"
           /\ parsed.expr.right.literal.n.cls = "zero"
                  => value.value.n.cls \in {"inf", "nan"}

\* "a" + 1 was evaluated to an error
C12_Witness ==
    /\ pc = "evaluated"
    /\ parsed.expr = BinaryExpr(Literal(LString(<<"a">>)), "Plus",
                                Literal(LNumber(Fin(1, 1))))
    /\ ~value.ok

\* nil is false, a boolean its own value, every number and every string true
TruthOf(l) ==
    CASE l.lit = "Nil" -> FALSE
      [] l.lit = "Bool" -> l.b
      [] l.lit = "Number" -> TRUE
      [] l.lit = "String" -> TRUE

NotOf(e) == UnaryExpr("Bang", e)

\* C13: ! applied to a value v is the boolean not(truthy(v)) and never an
\* error, and !!v is Bool(truthy(v)), where nil is false, a boolean is its
\* own value, and every number (0 too) and every string (the empty one too)
\* is true
C13_Truthiness ==
    pc = "evaluated" =>
        /\ \A l \in Literals :
               /\ parsed.expr = NotOf(Literal(l)) => value = EOk(VBool(~TruthOf(l)))
               /\ parsed.expr = NotOf(NotOf(Literal(l))) => value = EOk(VBool(TruthOf(l)))
        /\ parsed.expr \in {NotOf(Literal(LNumber(Fin(0, 1)))), NotOf(Literal(LString(<<>>))),
                            NotOf(Literal(LNumber(NaN))), NotOf(Literal(LBool(TRUE)))}
               => value = EOk(VBool(FALSE))
        /\ parsed.expr \in {NotOf(Literal(LNil)), NotOf(Literal(LBool(FALSE)))}
               => value = EOk(VBool(TRUE))
        /\ parsed.expr.kind = "Unary" /\ parsed.expr.unary = "Bang"
                /\ VariantOf(parsed.expr.expr) # "TypeError"
               => value.ok /\ value.value.variant = "Bool"

\* !!"" was evaluated to true
C13_Witness ==
    /\ pc = "evaluated"
    /\ parsed.expr = NotOf(NotOf(Literal(LString(<<>>))))
    /\ value = EOk(VBool(TRUE))

\* the message of the error of an operator applied to values it does not
\* support
MessageOf(e) ==
    IF e.kind = "Unary"
    THEN CASE VariantOf(e.expr) = "Nil" -> "can't '- nil'"
           [] VariantOf(e.expr) = "Bool" -> "can't '- bool'"
           [] VariantOf(e.expr) = "String" -> "can't '- string'"
    ELSE CASE e.operator = "Greater" -> "can > only numbers"
           [] e.operator = "GreaterEqual" -> "can >= only numbers"
           [] e.operator = "Less" -> "can < only numbers"
           [] e.operator = "LessEqual" -> "can <= only numbers"
           [] e.operator = "Minus" -> "can only subtract numbers"
           [] e.operator = "Plus" -> "can only add numbers or strings (for concatenation)"
           [] e.operator = "Divide" -> "can only divide numbers"
           [] e.operator = "Multiply" -> "can only multiply numbers"

RECURSIVE FirstError(_)

\* the message of the first error of an expression, its operands taken from
\* left to right and before their operator; "" when there is none
FirstError(e) ==
    CASE e.kind = "Literal" -> ""
      [] e.kind = "Grouping" -> FirstError(e.expr)
      [] e.kind = "Unary" ->
           IF FirstError(e.expr) # "" THEN FirstError(e.expr)
           ELSE IF VariantOf(e) = "TypeError" THEN MessageOf(e)
           ELSE ""
      [] e.kind = "Binary" ->
           IF FirstError(e.left) # "" THEN FirstError(e.left)
           ELSE IF FirstError(e.right) # "" THEN FirstError(e.right)
           ELSE IF VariantOf(e) = "TypeError" THEN MessageOf(e)
           ELSE ""

RECURSIVE Size(_)

\* the number of nodes of an expression
Size(e) ==
    CASE e.kind = "Literal" -> 1
      [] e.kind = "Grouping" -> 1 + Size(e.expr)
      [] e.kind = "Unary" -> 1 + Size(e.expr)
      [] e.kind = "Binary" -> 1 + Size(e.left) + Size(e.right)

Fails(e) == VariantOf(e) = "TypeError"

\* C14: a Binary node is evaluated from left to right and stops at the first
\* error: when the left operand fails the right one is not evaluated and the
\* result is the left's error; the right operand is evaluated after the whole
\* left one, and when it fails the result is its error; the operator checks
\* its operands only after both have a value.  The result of a failing
\* expression is its first error, and nothing else
C14_LeftToRight ==
    pc = "evaluated" =>
        /\ Fails(parsed.expr) => value = EErr(FirstError(parsed.expr))
        /\ parsed.expr.kind = "Binary" =>
               LET left == parsed.expr.left
                   right == parsed.expr.right
                   calls == evaluate_calls(parsed.expr)
               IN  /\ Fails(left) =>
                          /\ calls = <<parsed.expr>> \o evaluate_calls(left)
                          /\ Len(calls) <= Size(left) + 1
                          /\ value = EErr(FirstError(left))
                   /\ ~Fails(left) =>
                          /\ Len(evaluate_calls(left)) = Size(left)
                          /\ calls = <<parsed.expr>> \o evaluate_calls(left)
                                         \o evaluate_calls(right)
                   /\ ~Fails(left) /\ Fails(right) => value = EErr(FirstError(right))
                   /\ ~Fails(left) /\ ~Fails(right) /\ Fails(parsed.expr)
                          => /\ Len(calls) = Size(parsed.expr)
                             /\ value = EErr(MessageOf(parsed.expr))

\* -nil - -true was evaluated to the error of -nil
C14_Witness ==
    /\ pc = "evaluated"
    /\ parsed.expr = BinaryExpr(UnaryExpr("Minus", Literal(LNil)), "Minus",
                                UnaryExpr("Minus", Literal(LBool(TRUE))))
    /\ value = EErr("can't '- nil'")

(***************************************************************************)
(* The claims about scan_token, under Spec: last is the latest call of     *)
(* scan_token, its input and what it returned.                             *)
(***************************************************************************)
\* the input of the latest call of scan_token without its leading whitespace
Lexeme == trim_start(last.input)

DecimalDigits == {"0", "1", "2", "3", "4", "5", "6", "7", "8", "9"}

RECURSIVE LeadingDigits(_)

\* the number of digits a text starts with
LeadingDigits(s) ==
    IF s # <<>> /\ Head(s) \in DecimalDigits THEN 1 + LeadingDigits(Tail(s)) ELSE 0

\* the text starts with a dot and a digit
FractionAhead(s) == Len(s) >= 2 /\ s[1] = "." /\ s[2] \in DecimalDigits

\* the length of the longest match of digit+ ( "." digit+ )? at the head of s
NumberLength(s) ==
    LET n == LeadingDigits(s)
    IN  IF FractionAhead(Drop(s, n)) THEN n + 1 + LeadingDigits(Drop(s, n + 1)) ELSE n

\* the number the decimal text s denotes
DecimalOf(s) ==
    LET n == LeadingDigits(s)
        fraction == IF n = Len(s) THEN <<>> ELSE Drop(s, n + 1)
    IN  Fin(DigitsValue(SubSeq(s, 1, n) \o fraction), Pow10(Len(fraction)))

Dot == TokenType("Dot")

\* C15: a number token is the longest match of digit+ ( "." digit+ )?: a dot
\* that no digit follows stays in the remainder, a dot at the head of the
\* input is the token Dot; 10. scans as Number(10) then Dot, 12..34 as
\* Number(12) with the remainder ..34, 1.2.3.4 as Number(1.2) with the
\* remainder .3.4, and .1234 starts with Dot
C15_NumberLongestMatch ==
    /\ Lexeme # <<>> /\ Head(Lexeme) \in DecimalDigits =>
           LET n == NumberLength(Lexeme)
           IN  /\ last.result = OkSome(Number(DecimalOf(SubSeq(Lexeme, 1, n))))
               /\ last.remainder = Drop(Lexeme, n)
               /\ last.lines = 0
    /\ Lexeme # <<>> /\ Head(Lexeme) = "." =>
           last.result = OkSome(Dot) /\ last.remainder = Tail(Lexeme)
    /\ pc = "scanned" /\ text = SrcTrailingDot => TypesOf(tokens) = <<Num(10), Dot, Eof>>
    /\ last.input = SrcTwoDots =>
           last.result = OkSome(Num(12)) /\ last.remainder = <<".", ".", "3", "4">>
    /\ last.input = SrcFourParts =>
           /\ last.result = OkSome(Number(Fin(12, 10)))
           /\ last.remainder = <<".", "3", ".", "4">>
    /\ last.input = SrcLeadingDot =>
           last.result = OkSome(Dot) /\ last.remainder = <<"1", "2", "3", "4">>

\* scan_token has returned Number(1.2) and the remainder .3.4 for 1.2.3.4
C15_Witness ==
    /\ last.input = SrcFourParts
    /\ last.result = OkSome(Number(Fin(12, 10)))
    /\ last.remainder = <<".", "3", ".", "4">>

\* a character of a word: alphanumeric or the underscore
IsWordCharacter(c) ==
    c \in DecimalDigits \cup AsciiLetters \cup NonAsciiAlphanumerics \cup {"_"}

RECURSIVE RunLength(_)

\* the length of the maximal run of word characters at the head of s
RunLength(s) ==
    IF s # <<>> /\ IsWordCharacter(Head(s)) THEN 1 + RunLength(Tail(s)) ELSE 0

\* the sixteen reserved words and their tokens
ReservedWords ==
    {<<<<"a", "n", "d">>, "And">>, <<<<"c", "l", "a", "s", "s">>, "Class">>,
     <<<<"e", "l", "s", "e">>, "Else">>, <<<<"f", "a", "l", "s", "e">>, "False">>,
     <<<<"f", "u", "n">>, "Fun">>, <<<<"f", "o", "r">>, "For">>,
     <<<<"i", "f">>, "If">>, <<<<"n", "i", "l">>, "Nil">>, <<<<"o", "r">>, "Or">>,
     <<<<"p", "r", "i", "n", "t">>, "Print">>,
     <<<<"r", "e", "t", "u", "r", "n">>, "Return">>,
     <<<<"s", "u", "p", "e", "r">>, "Super">>, <<<<"t", "h", "i", "s">>, "This">>,
     <<<<"t", "r", "u", "e">>, "True">>, <<<<"v", "a", "r">>, "Var">>,
     <<<<"w", "h", "i", "l", "e">>, "While">>}

\* the token of a word: that of the reserved word, or an Identifier with the
\* text of the word
WordToken(word) ==
    IF \E r \in ReservedWords : r[1] = word
    THEN TokenType((CHOOSE r \in ReservedWords : r[1] = word)[2])
    ELSE Identifier(word)

\* C16: for a maximal run of alphanumeric characters and underscores that
\* does not start with an ASCII digit, scan_token consumes exactly the run
\* and returns the token of the reserved word when the run is one, and
\* otherwise an Identifier with the text of the run; never an error, and
\* never a token of another kind
C16_WordsAreIdentifiers ==
    Lexeme # <<>> /\ IsWordCharacter(Head(Lexeme)) /\ Head(Lexeme) \notin DecimalDigits
        => LET n == RunLength(Lexeme)
           IN  /\ last.remainder = Drop(Lexeme, n)
               /\ last.result = OkSome(WordToken(SubSeq(Lexeme, 1, n)))

\* scan_token has been called
Called == last.result.is # "NoCall"

\* r is what is left of s after some of its first characters
IsSuffix(r, s) == Len(r) <= Len(s) /\ r = Drop(s, Len(s) - Len(r))

\* C17: every call of scan_token on a non-empty input returns, in every
\* branch, a remainder that is a strictly shorter suffix of its input (so the
\* loop of scan_tokens ends after at most as many calls as the source has
\* characters)
C17_ScanProgress ==
    Called /\ last.input # <<>> =>
        /\ last.result.is \in {"Some", "None", "Err"}
        /\ Len(last.remainder) < Len(last.input)
        /\ IsSuffix(last.remainder, last.input)

(***************************************************************************)
(* The parser's position, under SpecParse.                                 *)
(***************************************************************************)
\* the token types a rule of the grammar consumes
ConsumedByRules ==
    {"Number", "String", "True", "False", "Nil", "LeftParen", "RightParen",
     "Bang", "Minus", "Plus", "Slash", "Star", "Greater", "GreaterEqual", "Less",
     "LessEqual", "BangEqual", "EqualEqual"}

\* the index of the Eof token, counted from 0 as the parser's position
IndexOfEof == Len(tokens) - 1

\* C18: on tokens that end with Eof the parser's position never decreases
\* and never passes the index of Eof: the positions peek reads, in the order
\* of its calls, start at 0, never go back and go on by one at most; peek
\* never reads beyond the end; every token the position has passed was read
\* by peek, is one a rule of the grammar takes, and is not Eof; so parse ends
\* after at most Len(tokens) - 1 consumptions
C18_PositionBounded ==
    Returned_parsed =>
        LET position == parsed.st.position
            peeks == parsed.st.peeks
        IN  /\ position <= IndexOfEof
            /\ peeks # <<>> /\ peeks[1] = 0
            /\ \A k \in 1..Len(peeks) : peeks[k] <= IndexOfEof
            /\ \A k \in 1..(Len(peeks) - 1) :
                   peeks[k] <= peeks[k + 1] /\ peeks[k + 1] <= peeks[k] + 1
            /\ position \in {peeks[Len(peeks)], peeks[Len(peeks)] + 1}
            /\ \A i \in 1..position :
                   /\ tokens[i].ty # Eof
                   /\ tokens[i].ty.ty \in ConsumedByRules
                   /\ \E k \in 1..Len(peeks) : peeks[k] = i - 1

\* parse has consumed every token before Eof, and stopped there
C18_Witness ==
    /\ pc = "parsed"
    /\ parsed.ok
    /\ Len(tokens) >= 4
    /\ parsed.st.position = IndexOfEof

(***************************************************************************)
(* a == b and a != b as relations, under SpecEval.                         *)
(***************************************************************************)
\* a == b or a != b was evaluated to a value
IsEqualityOf(op) ==
    /\ pc = "evaluated"
    /\ parsed.expr.kind = "Binary"
    /\ parsed.expr.operator = op
    /\ value.ok

\* the expression evaluated with another operator, or with its operands
\* exchanged
WithOperator(op) == BinaryExpr(parsed.expr.left, op, parsed.expr.right)

Exchanged == BinaryExpr(parsed.expr.right, parsed.expr.operator, parsed.expr.left)

Negated == EOk(VBool(~value.value.b))

\* C19: for every pair of values, a != b is the negation of a == b, and
\* a == b is b == a; equality is not transitive: 1 == true and 2 == true are
\* true and 1 == 2 is false
C19_NotEqualNegatesEqual ==
    /\ IsEqualityOf("Equal") =>
           /\ evaluate(WithOperator("NotEqual")) = Negated
           /\ evaluate(Exchanged) = value
    /\ IsEqualityOf("NotEqual") =>
           /\ evaluate(WithOperator("Equal")) = Negated
           /\ evaluate(Exchanged) = value
    /\ pc = "evaluated" =>
           /\ parsed.expr \in {EqualOf(LNumber(Fin(1, 1)), LBool(TRUE)),
                               EqualOf(LNumber(Fin(2, 1)), LBool(TRUE)),
                               EqualOf(LBool(TRUE), LNumber(Fin(2, 1)))}
                  => value = EOk(VBool(TRUE))
           /\ parsed.expr = EqualOf(LNumber(Fin(1, 1)), LNumber(Fin(2, 1)))
                  => value = EOk(VBool(FALSE))

\* 2 != true was evaluated to false
C19_Witness ==
    /\ pc = "evaluated"
    /\ parsed.expr = BinaryExpr(Literal(LNumber(Fin(2, 1))), "NotEqual",
                                Literal(LBool(TRUE)))
    /\ value = EOk(VBool(FALSE))

====
